---------------------------- MODULE Spec2Model ----------------------------
(***************************************************************************)
(* Model of the CellProfiler wrapper (src/wrapper.py): the column type     *)
(* inference of the CSV annotator, the pipeline patcher, and the run of    *)
(* main() from the first status update to the completion report.           *)
(*                                                                         *)
(* A string of the program is a sequence of one-character strings, so that *)
(* lower(), int(), float(), split() and replace() are computed and not     *)
(* assumed.                                                                *)
(***************************************************************************)
EXTENDS Integers, Sequences, FiniteSets, TLC

VARIABLES
    column,     \* infer_column_type: the list of sampled values of one column
    hint,       \* infer_column_type: the tag returned, "-" before the call
    pc,         \* main: the statement the run is at
    updates,    \* main: the bj.job.update calls made so far, in order
    parameters, \* bj.parameters
    cppipe,     \* the pipeline definition stored at PIPELINE_PATH
    tmpdirs,    \* the directories that exist under the temporary root
    tmpfiles,   \* the files under the temporary root: path -> pipeline
    tmp_path,   \* main: tmp_path
    timestamp,  \* main: timestamp
    mod_pipeline, \* main: mod_pipeline, <<>> before the patcher returned
    clock,      \* time.time(), in units of 0.1 ms
    outfs,      \* the files of out_path: name -> content
    engine_out, \* the result tables as the engine left them (history)
    csv_files,  \* main: the result tables still to annotate, in loop order
    type_hints, \* main: type_hints of the table being annotated
    returncode, \* main: status.returncode, NotRun before the engine ran
    exc,        \* the exception that ended the run, "" while it runs
    collided    \* the path whose os.mkdir raised FileExistsError (history)

inferVars == <<column, hint>>

\* what the pipeline patcher reads or writes
patchVars == <<parameters, cppipe, tmpfiles, mod_pipeline>>

\* the temporary directory set-up
tmpVars == <<tmpdirs, tmp_path, timestamp, clock>>

\* the output directory and the annotation loop
outVars == <<outfs, engine_out, csv_files, type_hints>>

mainVars ==
    <<pc, updates, patchVars, tmpVars, outVars, returncode, exc, collided>>

vars == <<inferVars, mainVars>>

-----------------------------------------------------------------------------
(* Strings *)

sEmpty == <<>>
sTrue == <<"t", "r", "u", "e">>
sFalse == <<"f", "a", "l", "s", "e">>
sFalseCap == <<"F", "a", "l", "s", "e">>
sOne == <<"1">>
sMinusTwo == <<"-", "2">>
sOnePointFive == <<"1", ".", "5">>
sAbc == <<"a", "b", "c">>
sX == <<"x">>
sSpaceSeven == <<" ", "7">>
sOneE3 == <<"1", "e", "3">>
sNan == <<"n", "a", "n">>
sInf == <<"i", "n", "f">>
sInfinity == <<"i", "n", "f", "i", "n", "i", "t", "y">>
sOneUnderscoreZero == <<"1", "_", "0">>

Digits == {"0", "1", "2", "3", "4", "5", "6", "7", "8", "9"}

Whitespace == {" ", "\t"}

\* str.lower() on one character (the upper-case letters the model uses)
LowerChar(ch) ==
    CASE ch = "T" -> "t"
      [] ch = "R" -> "r"
      [] ch = "U" -> "u"
      [] ch = "E" -> "e"
      [] ch = "F" -> "f"
      [] ch = "A" -> "a"
      [] ch = "L" -> "l"
      [] ch = "S" -> "s"
      [] ch = "N" -> "n"
      [] ch = "I" -> "i"
      [] OTHER -> ch

\* str.lower()
Lower(s) == [i \in 1..Len(s) |-> LowerChar(s[i])]

RECURSIVE LStrip(_)
LStrip(s) ==
    IF s # <<>> /\ Head(s) \in Whitespace THEN LStrip(Tail(s)) ELSE s

RECURSIVE RStrip(_)
RStrip(s) ==
    IF s # <<>> /\ s[Len(s)] \in Whitespace
    THEN RStrip(SubSeq(s, 1, Len(s) - 1))
    ELSE s

\* int() and float() ignore surrounding whitespace
Strip(s) == RStrip(LStrip(s))

\* an optional sign is dropped
DropSign(s) == IF s # <<>> /\ Head(s) \in {"+", "-"} THEN Tail(s) ELSE s

\* digits, with single underscores allowed between digits
IsDigitPart(s) ==
    /\ s # <<>>
    /\ s[1] \in Digits
    /\ s[Len(s)] \in Digits
    /\ \A i \in 1..Len(s) : s[i] \in Digits \cup {"_"}
    /\ \A i \in 1..(Len(s) - 1) : ~(s[i] = "_" /\ s[i + 1] = "_")

\* int(value) does not raise ValueError
ParsesInt(value) == IsDigitPart(DropSign(Strip(value)))

IsMantissa(m) ==
    \/ IsDigitPart(m)
    \/ \E i \in 1..Len(m) :
          /\ m[i] = "."
          /\ LET a == SubSeq(m, 1, i - 1)
                 b == SubSeq(m, i + 1, Len(m))
             IN  /\ a = <<>> \/ IsDigitPart(a)
                 /\ b = <<>> \/ IsDigitPart(b)
                 /\ ~(a = <<>> /\ b = <<>>)

IsDecimal(u) ==
    \/ IsMantissa(u)
    \/ \E i \in 1..Len(u) :
          /\ u[i] \in {"e", "E"}
          /\ IsMantissa(SubSeq(u, 1, i - 1))
          /\ IsDigitPart(DropSign(SubSeq(u, i + 1, Len(u))))

\* float(value) does not raise ValueError
ParsesFloat(value) ==
    LET u == DropSign(Strip(value))
    IN  \/ Lower(u) \in {sInf, sInfinity, sNan}
        \/ IsDecimal(u)

-----------------------------------------------------------------------------
(* infer_column_type *)

InferStart == [is_float |-> TRUE, is_int |-> TRUE, is_bool |-> TRUE]

\* one pass of the loop body
InferStep(flags, value) ==
    IF value = sEmpty THEN flags
    ELSE IF Lower(value) \in {sTrue, sFalse} THEN flags
    ELSE [is_bool |-> FALSE,
          is_int |-> flags.is_int /\ ParsesInt(value),
          is_float |-> flags.is_float /\ ParsesFloat(value)]

RECURSIVE InferScan(_, _)
InferScan(flags, values) ==
    IF values = <<>> THEN flags
    ELSE InferScan(InferStep(flags, Head(values)), Tail(values))

infer_column_type(values) ==
    LET flags == InferScan(InferStart, values)
    IN  IF flags.is_bool THEN "b"
        ELSE IF flags.is_int THEN "l"
        ELSE IF flags.is_float THEN "d"
        ELSE "s"

-----------------------------------------------------------------------------
(* Specification of infer_column_type over bounded columns *)

MaxColumn == 3

InferCells ==
    {sEmpty, sTrue, sFalseCap, sOne, sMinusTwo, sOnePointFive, sAbc,
     sSpaceSeven, sOneE3, sNan, sOneUnderscoreZero}

RECURSIVE SeqsUpTo(_, _)
SeqsUpTo(S, n) ==
    IF n = 0 THEN {<<>>}
    ELSE LET shorter == SeqsUpTo(S, n - 1)
         IN  shorter \cup
             {Append(s, x) : s \in {t \in shorter : Len(t) = n - 1}, x \in S}

\* the variables of main() while only infer_column_type is exercised
MainIdle ==
    /\ pc = "idle"
    /\ updates = <<>>
    /\ parameters = <<>>
    /\ cppipe = <<>>
    /\ tmpdirs = {}
    /\ tmpfiles = <<>>
    /\ tmp_path = <<>>
    /\ timestamp = 0
    /\ mod_pipeline = <<>>
    /\ clock = 0
    /\ outfs = <<>>
    /\ engine_out = <<>>
    /\ csv_files = <<>>
    /\ type_hints = <<>>
    /\ returncode = 0 - 1
    /\ exc = ""
    /\ collided = <<>>

InitInfer ==
    /\ column \in SeqsUpTo(InferCells, MaxColumn)
    /\ hint = "-"
    /\ MainIdle

InferColumn ==
    /\ hint = "-"
    /\ hint' = infer_column_type(column)
    /\ UNCHANGED <<column, mainVars>>

NextInfer == InferColumn

SpecInfer == InitInfer /\ [][NextInfer]_vars

-----------------------------------------------------------------------------
(* parse_cellprofiler_parameters *)

NUCLEI_MASK_KEY == <<"_", "N", "u", "c", "l", "e", "i", "_", "M", "a", "s", "k">>

CELLS_MASK_KEY == <<"_", "C", "e", "l", "l", "s", "_", "M", "a", "s", "k">>

NAMES_AND_TYPES_MODULE_INDEX == 2

\* the dict MASK_INDICES, in its insertion order
MASK_INDICES ==
    <<[index |-> 14, mask_key |-> NUCLEI_MASK_KEY],
      [index |-> 26, mask_key |-> CELLS_MASK_KEY]>>

PARAMETER_SUFFIXES(mask_key) ==
    IF mask_key = NUCLEI_MASK_KEY THEN "nuclei_mask_suffix"
    ELSE "cells_mask_suffix"

\* the module that holds the channels, and its setting that counts them
CHANNELS_MODULE_INDEX == 4

CHANNEL_COUNT_SETTING == 20

sDefaultChannels == <<"1", ",", "2", ",", "3">>

sChannel == <<"C", "h", "a", "n", "n", "e", "l">>

\* a path is a sequence of names; a name is a sequence of parts, the last
\* one its extension
CPPIPE == ".cppipe"

PIPELINE_PATH == <<<<"app">>, <<"FullMeasurementsNucleiCell", CPPIPE>>>>

\* os.path.basename
Basename(path) == path[Len(path)]

\* os.path.join(directory, name)
Join(directory, name) == Append(directory, name)

StartsWith(s, prefix) ==
    Len(s) >= Len(prefix) /\ SubSeq(s, 1, Len(prefix)) = prefix

\* str.replace(old, new): every non-overlapping occurrence, left to right
RECURSIVE Replace(_, _, _)
Replace(s, old, new) ==
    IF Len(s) < Len(old) THEN s
    ELSE IF StartsWith(s, old)
         THEN new \o Replace(SubSeq(s, Len(old) + 1, Len(s)), old, new)
         ELSE <<Head(s)>> \o Replace(Tail(s), old, new)

\* str.split(sep) for a one-character separator
RECURSIVE Split(_, _)
Split(s, sep) ==
    IF \A i \in 1..Len(s) : s[i] # sep THEN <<s>>
    ELSE LET i == CHOOSE j \in 1..Len(s) :
                     s[j] = sep /\ \A k \in 1..(j - 1) : s[k] # sep
         IN  <<SubSeq(s, 1, i - 1)>> \o Split(SubSeq(s, i + 1, Len(s)), sep)

DigitValue(ch) == CHOOSE n \in 0..9 : ToString(n) = ch

RECURSIVE DigitsValue(_, _)
DigitsValue(acc, s) ==
    IF s = <<>> THEN acc
    ELSE IF Head(s) = "_" THEN DigitsValue(acc, Tail(s))
    ELSE DigitsValue(10 * acc + DigitValue(Head(s)), Tail(s))

\* int(s) for an s that parses
IntValue(s) ==
    LET t == Strip(s)
        n == DigitsValue(0, DropSign(t))
    IN  IF t # <<>> /\ Head(t) = "-" THEN 0 - n ELSE n

\* str(n), as an f-string formats an int
RECURSIVE Str(_)
Str(n) ==
    IF n < 0 THEN <<"-">> \o Str(0 - n)
    ELSE IF n < 10 THEN <<ToString(n)>>
    ELSE Str(n \div 10) \o <<ToString(n % 10)>>

\* module.setting(n).get_value(): settings are counted from 1, modules from 0;
\* the count setting of the channels module reads the length of its list
GetValue(pipeline, m, n) ==
    IF m = CHANNELS_MODULE_INDEX /\ n = CHANNEL_COUNT_SETTING
    THEN Len(pipeline.channels)
    ELSE pipeline.modules[m + 1][n]

\* module.setting(n).set_value(v)
SetValue(pipeline, m, n, v) ==
    [pipeline EXCEPT !.modules[m + 1][n] = v]

\* lines 110-115, from the i-th item of MASK_INDICES on
RECURSIVE PatchMasks(_, _, _)
PatchMasks(pipeline, params, i) ==
    IF i > Len(MASK_INDICES) THEN pipeline
    ELSE LET index == MASK_INDICES[i].index
             mask_key == MASK_INDICES[i].mask_key
             pipeline_value ==
                 GetValue(pipeline, NAMES_AND_TYPES_MODULE_INDEX, index)
             param_suffix == params[PARAMETER_SUFFIXES(mask_key)]
             new_value == Replace(pipeline_value, mask_key, param_suffix)
         IN  PatchMasks(
                 SetValue(pipeline, NAMES_AND_TYPES_MODULE_INDEX, index,
                          new_value),
                 params, i + 1)

\* channel_settings.add_channel(): one more channel, with the defaults
AddChannel(channels) ==
    Append(channels,
           [channel_choice |-> 1, contribution |-> 1,
            image_name |-> sChannel \o Str(Len(channels) + 1)])

RECURSIVE AddChannels(_, _)
AddChannels(channels, n) ==
    IF n = 0 THEN channels ELSE AddChannels(AddChannel(channels), n - 1)

\* a resize that adds missing channels and never removes one
ResizeOnlyGrows(channels, num_channels) ==
    IF num_channels > Len(channels)
    THEN AddChannels(channels, num_channels - Len(channels))
    ELSE channels

\* lines 128-135: the list grown or cut to num_channels entries
ResizeChannels(channels, num_channels) ==
    LET cur_channels == Len(channels)
    IN  IF num_channels > cur_channels
        THEN AddChannels(channels, num_channels - cur_channels)
        ELSE IF num_channels < cur_channels
        THEN SubSeq(channels, 1, num_channels)
        ELSE channels

ChannelName(value) == sChannel \o Str(value)

\* lines 137-147, for the parsed metric_channels
SetChannels(pipeline, metric_channels) ==
    LET resized == ResizeChannels(pipeline.channels, Len(metric_channels))
    IN  [pipeline EXCEPT
            !.channels =
                [i \in 1..Len(resized) |->
                    IF i <= Len(metric_channels)
                    THEN [resized[i] EXCEPT
                             !.channel_choice = metric_channels[i],
                             !.image_name = ChannelName(metric_channels[i])]
                    ELSE resized[i]],
            !.images_list =
                [i \in 1..Len(metric_channels) |->
                    ChannelName(metric_channels[i])]]

\* lines 118-147: [raised, pipeline]; int() raises ValueError on a bad item
PatchChannels(pipeline, params) ==
    IF params.metric_channels = sDefaultChannels
    THEN [raised |-> FALSE, pipeline |-> pipeline]
    ELSE LET items == Split(params.metric_channels, ",")
         IN  IF \E i \in 1..Len(items) : ~ParsesInt(items[i])
             THEN [raised |-> TRUE, pipeline |-> pipeline]
             ELSE [raised |-> FALSE,
                   pipeline |->
                       SetChannels(pipeline,
                           [i \in 1..Len(items) |-> IntValue(items[i])])]

\* masks replaced in every setting of the names-and-types module
PatchMasksEverywhere(pipeline, params) ==
    [pipeline EXCEPT
        !.modules[NAMES_AND_TYPES_MODULE_INDEX + 1] =
            [n \in 1..Len(@) |->
                Replace(Replace(@[n], NUCLEI_MASK_KEY,
                                params.nuclei_mask_suffix),
                        CELLS_MASK_KEY, params.cells_mask_suffix)]]

\* lines 106-115
PatchAllMasks(pipeline, params) == PatchMasks(pipeline, params, 1)

\* the pipeline that parse_cellprofiler_parameters dumps, or raised
parse_cellprofiler_parameters(params, pipeline) ==
    PatchChannels(PatchAllMasks(pipeline, params), params)

-----------------------------------------------------------------------------
(* main: status updates, temporary directory, pipeline patching *)

NotRun == 0 - 1

UpdateInitialisation ==
    [progress |-> 0, status |-> "RUNNING", comment |-> "Initialisation..."]

\* the second update reported with the progress of the completion report
UpdateLaunchingAsFinished ==
    [progress |-> 100, status |-> "", comment |-> "Launching workflow..."]

UpdateLaunching ==
    [progress |-> 25, status |-> "", comment |-> "Launching workflow..."]

\* err_desc carries the command line and the return code
UpdateFailed(shArgs, rc) ==
    [progress |-> 50, status |-> "",
     comment |-> [text |-> "Failed to execute the CellProfiler pipeline",
                  shArgs |-> shArgs, returncode |-> rc]]

UpdateFinished ==
    [progress |-> 100, status |-> "TERMINATED", comment |-> "Finished."]

Progress == [i \in 1..Len(updates) |-> updates[i].progress]

\* the temporary root that prepare_data returns
TMP_ROOT == <<<<"tmp">>>>

\* the function f with x mapped to v
Put(f, x, v) == (x :> v) @@ f

\* the function f without x
Remove(f, x) == [y \in DOMAIN f \ {x} |-> f[y]]

Running == exc = ""

\* lines 173-177
Initialise ==
    /\ Running /\ pc = "start"
    /\ updates' = Append(updates, UpdateInitialisation)
    /\ tmp_path' = TMP_ROOT
    /\ pc' = "mktmp"
    /\ UNCHANGED <<inferVars, patchVars, tmpdirs, timestamp, clock, outVars,
                   returncode, exc, collided>>

MaxTick == 10

\* int(time.time() * 1000), the clock counting units of 0.1 ms
Millis(t) == t \div 10

\* int(time.time() * 10000)
TenthMillis(t) == t

\* lines 185-186: tmp_path already ends with the first timestamp
RetryPath(first_path, stamp) == Join(first_path, <<ToString(stamp)>>)

\* lines 180-187; the clock may advance before the retry reads it
MakeTmp ==
    /\ Running /\ pc = "mktmp"
    /\ LET first_path == Join(tmp_path, <<ToString(Millis(clock))>>)
       IN  IF first_path \notin tmpdirs
           THEN /\ timestamp' = Millis(clock)
                /\ tmp_path' = first_path
                /\ tmpdirs' = tmpdirs \cup {first_path}
                /\ pc' = "launch"
                /\ UNCHANGED <<clock, exc, collided>>
           ELSE \E later \in clock..MaxTick :
                   LET second_path == RetryPath(first_path, TenthMillis(later))
                   IN  /\ clock' = later
                       /\ collided' = first_path
                       /\ timestamp' = TenthMillis(later)
                       /\ tmp_path' = second_path
                       /\ IF second_path \notin tmpdirs
                          THEN /\ tmpdirs' = tmpdirs \cup {second_path}
                               /\ pc' = "launch"
                               /\ UNCHANGED exc
                          ELSE /\ exc' = "FileExistsError"
                               /\ UNCHANGED <<tmpdirs, pc>>
    /\ UNCHANGED <<inferVars, updates, patchVars, outVars, returncode>>

\* lines 198-201 and 100-153: the update, the patch, the dump to tmpdir
LaunchWorkflow ==
    /\ Running /\ pc = "launch"
    /\ updates' = Append(updates, UpdateLaunching)
    /\ LET mod_cppipe == Join(tmp_path, Basename(PIPELINE_PATH))
           patched == parse_cellprofiler_parameters(parameters, cppipe)
       IN  IF patched.raised
           THEN /\ exc' = "ValueError"
                /\ UNCHANGED <<pc, tmpfiles, mod_pipeline>>
           ELSE /\ tmpfiles' = Put(tmpfiles, mod_cppipe, patched.pipeline)
                /\ mod_pipeline' = mod_cppipe
                /\ pc' = "engine"
                /\ UNCHANGED exc
    /\ UNCHANGED <<inferVars, parameters, cppipe, tmpVars, outVars,
                   returncode, collided>>

-----------------------------------------------------------------------------
(* Specification of the patcher over bounded pipelines and parameters *)

sFiller == <<"o">>
sNuc == <<"_", "n", "u", "c">>
sCell == <<"_", "c", "e", "l", "l">>
sDna == <<"D", "N", "A">>

PatternWith(key) == <<"^">> \o key \o <<"$">>

PatternTwice(key) == key \o <<"|">> \o key

\* a value whose placeholder is missing: the module layout has drifted
PatternDrifted == <<"^", "_", "M", "a", "s", "k", "$">>

\* the names-and-types module: the two mask settings, two neighbours that
\* hold the same placeholders, and other settings
NamesAndTypes(nuclei_value, cells_value) ==
    [n \in 1..MASK_INDICES[2].index |->
        IF n = MASK_INDICES[1].index THEN nuclei_value
        ELSE IF n = MASK_INDICES[2].index THEN cells_value
        ELSE IF n = MASK_INDICES[1].index - 1
        THEN PatternWith(NUCLEI_MASK_KEY)
        ELSE IF n = MASK_INDICES[2].index - 1
        THEN PatternWith(CELLS_MASK_KEY)
        ELSE sFiller]

OtherModule == <<PatternWith(NUCLEI_MASK_KEY), sFiller>>

ChannelsModule == [n \in 1..CHANNEL_COUNT_SETTING |-> sFiller]

MakePipeline(nuclei_value, cells_value, channels) ==
    [modules |-> <<OtherModule, OtherModule,
                   NamesAndTypes(nuclei_value, cells_value), OtherModule,
                   ChannelsModule, OtherModule, OtherModule>>,
     channels |-> channels,
     images_list |-> [i \in 1..Len(channels) |-> channels[i].image_name]]

ConfiguredChannels(n, named) ==
    [i \in 1..n |->
        [channel_choice |-> i, contribution |-> 1,
         image_name |-> IF named THEN ChannelName(i) ELSE sDna \o Str(i)]]

MaxChannels == 4

Pipelines ==
    {MakePipeline(nuclei_value, cells_value, ConfiguredChannels(n, named)) :
        nuclei_value \in {PatternWith(NUCLEI_MASK_KEY),
                          PatternTwice(NUCLEI_MASK_KEY), PatternDrifted},
        cells_value \in {PatternWith(CELLS_MASK_KEY), PatternDrifted},
        n \in 0..MaxChannels, named \in BOOLEAN}

MetricChoices ==
    {sDefaultChannels,
     <<"1">>,
     <<"2", ",", "1">>,
     <<"3", ",", "2", ",", "1">>,
     <<"1", ",", " ", "2", ",", "3">>,
     <<"1", ",", "2", ",", "3", ",", "4">>,
     <<"1", "0", ",", "-", "2">>,
     <<"1", ",", ",", "2">>}

ParameterSets ==
    [nuclei_mask_suffix : {sNuc, CELLS_MASK_KEY, NUCLEI_MASK_KEY \o <<"2">>},
     cells_mask_suffix : {sCell, sEmpty},
     metric_channels : MetricChoices]

\* the run as MakeTmp leaves it, for any pipeline and parameters
InitPatch ==
    /\ column = <<>> /\ hint = "-"
    /\ pc = "launch"
    /\ updates = <<UpdateInitialisation>>
    /\ parameters \in ParameterSets
    /\ cppipe \in Pipelines
    /\ tmpdirs = {TMP_ROOT, Join(TMP_ROOT, <<"0">>)}
    /\ tmpfiles = <<>>
    /\ tmp_path = Join(TMP_ROOT, <<"0">>)
    /\ timestamp = 0
    /\ mod_pipeline = <<>>
    /\ clock = 0
    /\ outfs = <<>>
    /\ engine_out = <<>>
    /\ csv_files = <<>>
    /\ type_hints = <<>>
    /\ returncode = NotRun
    /\ exc = ""
    /\ collided = <<>>

NextPatch == LaunchWorkflow

SpecPatch == InitPatch /\ [][NextPatch]_vars

-----------------------------------------------------------------------------
(* main: the engine, the annotation of the result tables, completion *)

CSV == ".csv"

TEMP == ".temp"

IN_PATH == <<<<"data">>, <<"in">>>>

OUT_PATH == <<<<"data">>, <<"out">>>>

\* str.endswith, for an extension
EndsWith(name, extension) == name # <<>> /\ name[Len(name)] = extension

\* line 204-207
ShArgs ==
    [p |-> mod_pipeline, i |-> IN_PATH, o |-> OUT_PATH, t |-> tmp_path]

\* a status that lets the run go on whatever the engine returned
EngineFailedNever(rc) == FALSE

\* line 210
EngineFailed(rc) == rc # 0

\* line 217-218: the base name without its last 7 characters, the timestamp
\* and the extension
UniqueName(basename, stamp) ==
    SubSeq(basename, 1, Len(basename) - 1) \o <<"_", ToString(stamp), CPPIPE>>

\* a line of a CSV file: its cells and its line terminator
Line(cells, eol) == [cells |-> cells, eol |-> eol]

\* csv.reader: the rows of a file, each a list of cells
ReadRows(file) == [i \in 1..Len(file) |-> file[i].cells]

\* csv.writer.writerow: the default dialect ends a line with "\r\n"
WriteRow(row) == Line(row, "CRLF")

SAMPLE_ROWS == 10

Min(a, b) == IF a <= b THEN a ELSE b

\* lines 239-245: the rows after the header, ten at most
DataSamples(rows) == SubSeq(rows, 2, Min(Len(rows), 1 + SAMPLE_ROWS))

\* list(zip(*data_samples)): as many columns as the shortest row has cells
Transpose(data_samples) ==
    IF data_samples = <<>> THEN <<>>
    ELSE LET width ==
                 CHOOSE w \in {Len(data_samples[i]) :
                                  i \in 1..Len(data_samples)} :
                     \A i \in 1..Len(data_samples) : w <= Len(data_samples[i])
         IN  [c \in 1..width |->
                 [i \in 1..Len(data_samples) |-> data_samples[i][c]]]

sHeaderMark == <<"#", " ", "h", "e", "a", "d", "e", "r", " ">>

\* line 251
InferredHints(data_samples) ==
    LET transposed_samples == Transpose(data_samples)
    IN  [c \in 1..Len(transposed_samples) |->
            <<infer_column_type(transposed_samples[c])>>]

\* the temporary file is the table itself
TempPathInPlace(csv_file_path) == csv_file_path

\* line 232
TempPath(csv_file_path) == Append(csv_file_path, TEMP)

\* the rows a reader that has already given the header and the samples
\* still has
RowsLeftAfterSampling(file) ==
    SubSeq(ReadRows(file), Min(Len(file), 1 + SAMPLE_ROWS) + 1, Len(file))

\* lines 262-264: a reader opened anew gives every row of the table
RowsToCopy(file) == ReadRows(file)

\* lines 204-208: the engine runs, leaves its result tables in out_path and
\* returns; out_path holds what the engine wrote
RunEngineWith(rc, tables) ==
    /\ Running /\ pc = "engine"
    /\ returncode' = rc
    /\ outfs' = tables
    /\ engine_out' = tables
    /\ pc' = "status"
    /\ UNCHANGED <<inferVars, updates, patchVars, tmpVars, csv_files,
                   type_hints, exc, collided>>

\* lines 210-214
ReportFailure ==
    /\ Running /\ pc = "status"
    /\ EngineFailed(returncode)
    /\ updates' = Append(updates, UpdateFailed(ShArgs, returncode))
    /\ exc' = "ValueError"
    /\ UNCHANGED <<inferVars, pc, patchVars, tmpVars, outVars, returncode,
                   collided>>

\* lines 215-219: shutil.move of the patched pipeline into out_path
MovePipeline ==
    /\ Running /\ pc = "status"
    /\ ~EngineFailed(returncode)
    /\ outfs' = Put(outfs, UniqueName(Basename(mod_pipeline), timestamp),
                    tmpfiles[mod_pipeline])
    /\ tmpfiles' = Remove(tmpfiles, mod_pipeline)
    /\ pc' = "listdir"
    /\ UNCHANGED <<inferVars, updates, parameters, cppipe, mod_pipeline,
                   tmpVars, engine_out, csv_files, type_hints, returncode,
                   exc, collided>>

\* the orders in which os.listdir may give the names of S
Orderings(S) ==
    {order \in [1..Cardinality(S) -> S] :
        \A i, j \in 1..Cardinality(S) : i # j => order[i] # order[j]}

\* line 228
ListCsvFiles ==
    /\ Running /\ pc = "listdir"
    /\ \E order \in Orderings({f \in DOMAIN outfs : EndsWith(f, CSV)}) :
          csv_files' = order
    /\ pc' = "loop"
    /\ UNCHANGED <<inferVars, updates, patchVars, tmpVars, outfs, engine_out,
                   type_hints, returncode, exc, collided>>

\* lines 230-252, for the next table of the loop
AnnotateSample ==
    /\ Running /\ pc = "loop" /\ csv_files # <<>>
    /\ LET rows == ReadRows(outfs[csv_files[1]])
       IN  IF rows = <<>>
           THEN /\ exc' = "StopIteration"
                /\ UNCHANGED <<pc, type_hints>>
           ELSE LET hints == InferredHints(DataSamples(rows))
                IN  IF hints = <<>>
                    THEN /\ exc' = "IndexError"
                         /\ UNCHANGED <<pc, type_hints>>
                    ELSE /\ type_hints' =
                                [hints EXCEPT ![1] = sHeaderMark \o @]
                         /\ pc' = "open"
                         /\ UNCHANGED exc
    /\ UNCHANGED <<inferVars, updates, patchVars, tmpVars, outfs, engine_out,
                   csv_files, returncode, collided>>

\* line 255: open(temp_file_path, mode='w') creates or empties the file
AnnotateOpenTemp ==
    /\ Running /\ pc = "open"
    /\ outfs' = Put(outfs, TempPath(csv_files[1]), <<>>)
    /\ pc' = "hints"
    /\ UNCHANGED <<inferVars, updates, patchVars, tmpVars, engine_out,
                   csv_files, type_hints, returncode, exc, collided>>

\* line 259
AnnotateWriteHints ==
    /\ Running /\ pc = "hints"
    /\ LET temp == TempPath(csv_files[1])
       IN  outfs' = Put(outfs, temp, Append(outfs[temp], WriteRow(type_hints)))
    /\ pc' = "rows"
    /\ UNCHANGED <<inferVars, updates, patchVars, tmpVars, engine_out,
                   csv_files, type_hints, returncode, exc, collided>>

\* the lines writerows adds to the temporary file for the given rows
Written(rows) == [i \in 1..Len(rows) |-> WriteRow(rows[i])]

\* lines 262-264
AnnotateWriteRows ==
    /\ Running /\ pc = "rows"
    /\ LET temp == TempPath(csv_files[1])
       IN  outfs' = Put(outfs, temp,
                        outfs[temp] \o Written(RowsToCopy(outfs[csv_files[1]])))
    /\ pc' = "replace"
    /\ UNCHANGED <<inferVars, updates, patchVars, tmpVars, engine_out,
                   csv_files, type_hints, returncode, exc, collided>>

\* line 267: os.replace, then the loop goes to the next table
AnnotateReplace ==
    /\ Running /\ pc = "replace"
    /\ LET temp == TempPath(csv_files[1])
       IN  outfs' = Put(Remove(outfs, temp), csv_files[1], outfs[temp])
    /\ csv_files' = Tail(csv_files)
    /\ pc' = "loop"
    /\ UNCHANGED <<inferVars, updates, patchVars, tmpVars, engine_out,
                   type_hints, returncode, exc, collided>>

\* the run fails inside the loop: an OSError of a read or a write, which at
\* line 264 may come after some of the rows were written
AnnotateFails ==
    /\ Running
    /\ \/ pc = "loop" /\ csv_files # <<>> /\ UNCHANGED outfs
       \/ pc \in {"open", "hints", "replace"} /\ UNCHANGED outfs
       \/ /\ pc = "rows"
          /\ LET temp == TempPath(csv_files[1])
                 rows == RowsToCopy(outfs[csv_files[1]])
             IN  \E k \in 0..(Len(rows) - 1) :
                    outfs' = Put(outfs, temp,
                                 outfs[temp] \o Written(SubSeq(rows, 1, k)))
    /\ exc' = "OSError"
    /\ UNCHANGED <<inferVars, pc, updates, patchVars, tmpVars, engine_out,
                   csv_files, type_hints, returncode, collided>>

\* line 276
Finish ==
    /\ Running /\ pc = "loop" /\ csv_files = <<>>
    /\ updates' = Append(updates, UpdateFinished)
    /\ pc' = "done"
    /\ UNCHANGED <<inferVars, patchVars, tmpVars, outVars, returncode, exc,
                   collided>>

-----------------------------------------------------------------------------
(* Specification of one run of main *)

MaxRows == 11

MaxCols == 2

NucleiCsv == <<"Nuclei", CSV>>

CellsCsv == <<"Cells", CSV>>

HeaderRow(width) == [c \in 1..width |-> <<"h">> \o Str(c)]

\* a data row: the first column holds fill, the second a float, the others
\* text
BaseRow(fill, width) ==
    [c \in 1..width |->
        IF c = 1 THEN fill ELSE IF c = 2 THEN sOnePointFive ELSE sAbc]

FillCells == {sOne, sTrue}

\* rows of text: a blank line, a short row, a full row, a long row
OddRows(width) ==
    {[c \in 1..k |-> sX] : k \in {0, width - 1, width, width + 1}}

RowCounts == {0, 1, SAMPLE_ROWS, MaxRows}

\* the first row, the last sampled row, a row after the sample
OddPositions(n) == {p \in {1, SAMPLE_ROWS, MaxRows} : p <= n}

\* the rows of a result table: a header and n data rows, all alike but at
\* most one; and the file with no row at all
TableRows ==
    {<<>>} \cup
    UNION {
        {<<HeaderRow(width)>> \o [i \in 1..n |-> BaseRow(fill, width)]} \cup
        {<<HeaderRow(width)>> \o
            [i \in 1..n |-> IF i = p THEN odd ELSE BaseRow(fill, width)] :
            p \in OddPositions(n), odd \in OddRows(width)} :
        width \in 1..MaxCols, n \in RowCounts, fill \in FillCells}

SmallTableRows == {rows \in TableRows : Len(rows) <= 2}

Text(rows, eol) == [i \in 1..Len(rows) |-> Line(rows[i], eol)]

LineEnds == {"LF", "CRLF"}

\* what the engine may leave in out_path: nothing, one table, or two small
\* tables
EngineOutputs ==
    {<<>>} \cup
    {(NucleiCsv :> Text(rows, eol)) : rows \in TableRows, eol \in LineEnds}
    \cup
    {(NucleiCsv :> Text(first, eol)) @@ (CellsCsv :> Text(second, eol)) :
        first \in SmallTableRows, second \in SmallTableRows,
        eol \in LineEnds}

ReturnCodes == {0, 1}

RunEngine ==
    \E rc \in ReturnCodes, tables \in EngineOutputs : RunEngineWith(rc, tables)

DefaultParameters ==
    [nuclei_mask_suffix |-> sNuc, cells_mask_suffix |-> sCell,
     metric_channels |-> sDefaultChannels]

RunParameterSets ==
    {DefaultParameters,
     [DefaultParameters EXCEPT !.metric_channels = <<"1", ",", ",", "2">>]}

DeployedPipeline ==
    MakePipeline(PatternWith(NUCLEI_MASK_KEY), PatternWith(CELLS_MASK_KEY),
                 ConfiguredChannels(3, TRUE))

\* a directory another run made under the temporary root, with its file
StaleDir == Join(TMP_ROOT, <<ToString(Millis(MaxTick - 1))>>)

StaleFile == Join(StaleDir, Basename(PIPELINE_PATH))

\* what the other run left in its file
StalePipeline == [modules |-> <<>>, channels |-> <<>>, images_list |-> <<>>]

StaleNested == Join(StaleDir, <<ToString(TenthMillis(MaxTick))>>)

Init ==
    /\ column = <<>> /\ hint = "-"
    /\ pc = "start"
    /\ updates = <<>>
    /\ parameters \in RunParameterSets
    /\ cppipe = DeployedPipeline
    /\ \/ tmpdirs = {TMP_ROOT} /\ tmpfiles = <<>>
       \/ /\ tmpdirs \in {{TMP_ROOT, StaleDir},
                          {TMP_ROOT, StaleDir, StaleNested}}
          /\ tmpfiles = (StaleFile :> StalePipeline)
    /\ tmp_path = <<>>
    /\ timestamp = 0
    /\ mod_pipeline = <<>>
    /\ clock \in (MaxTick - 1)..MaxTick
    /\ outfs = <<>>
    /\ engine_out = <<>>
    /\ csv_files = <<>>
    /\ type_hints = <<>>
    /\ returncode = NotRun
    /\ exc = ""
    /\ collided = <<>>

Next ==
    \/ Initialise
    \/ MakeTmp
    \/ LaunchWorkflow
    \/ RunEngine
    \/ ReportFailure
    \/ MovePipeline
    \/ ListCsvFiles
    \/ AnnotateSample
    \/ AnnotateOpenTemp
    \/ AnnotateWriteHints
    \/ AnnotateWriteRows
    \/ AnnotateReplace
    \/ AnnotateFails
    \/ Finish

Spec == Init /\ [][Next]_vars

-----------------------------------------------------------------------------
(* C1 *)

NonEmpty(values) == {i \in 1..Len(values) : values[i] # sEmpty}

\* the tag the precedence rule over the non-empty values gives
PrecedenceTag(values) ==
    LET ne == NonEmpty(values)
    IN  IF \A i \in ne : Lower(values[i]) \in {sTrue, sFalse} THEN "b"
        ELSE IF \A i \in ne : ParsesInt(values[i]) THEN "l"
        ELSE IF \A i \in ne : ParsesFloat(values[i]) THEN "d"
        ELSE "s"

\* C1: for every list of sampled cell strings, the tag returned is the one
\* chosen in precedence order over the non-empty values: 'b' if all are
\* true/false, else 'l' if all parse as integers, else 'd' if all parse as
\* floats, else 's'.
C1_PrecedenceOverNonEmpty ==
    hint # "-" => hint = PrecedenceTag(column)

-----------------------------------------------------------------------------
(* C2, C3, C4, C5 *)

\* os.listdir has been read
Listed == pc \in {"loop", "open", "hints", "rows", "replace", "done"}

\* the loop has replaced result table f
Annotated(f) ==
    /\ Listed
    /\ f \in DOMAIN engine_out
    /\ \A i \in 1..Len(csv_files) : csv_files[i] # f

OriginalRows(f) == ReadRows(engine_out[f])

\* the tag row that marks every one of the header's columns as a string
AllStringTags(header) ==
    [c \in 1..Len(header) |->
        IF c = 1 THEN sHeaderMark \o <<"s">> ELSE <<"s">>]

\* C2: for a result table with a header row and no data rows, the
\* annotation raises no error and writes a tag row that tags every column
\* 's'; the run goes on to the next table and to the completion report.
C2_HeaderOnlyTableTaggedString ==
    \A f \in DOMAIN engine_out :
        Len(OriginalRows(f)) = 1 =>
            /\ ~(exc # "" /\ pc = "loop" /\ csv_files # <<>>
                 /\ csv_files[1] = f)
            /\ Annotated(f) =>
                  ReadRows(outfs[f])[1] = AllStringTags(OriginalRows(f)[1])

\* C3: after a result table with N >= 1 data rows is annotated, the file
\* under its original name is one inserted row followed by every original
\* row, header and data rows beyond the sample included, unchanged and in
\* the original order.
C3_OriginalRowsPreserved ==
    \A f \in DOMAIN engine_out :
        (Annotated(f) /\ Len(OriginalRows(f)) >= 2) =>
            LET original == OriginalRows(f)
                now == ReadRows(outfs[f])
            IN  /\ Len(now) = Len(original) + 1
                /\ \A i \in 1..Len(original) : now[i + 1] = original[i]

\* a table with more data rows than are sampled has been annotated
C3_Witness ==
    \E f \in DOMAIN engine_out :
        /\ Annotated(f)
        /\ Len(OriginalRows(f)) > 1 + SAMPLE_ROWS
        /\ outfs[f] # engine_out[f]

\* C4: for every result table with at least one data row, the inserted row
\* holds one tag per column of the header, the tag of column i is the type
\* inferred from the cells of column i in the first min(10, N) data rows,
\* and only the first tag carries the prefix "# header ".
C4_OneTagPerHeaderColumn ==
    \A f \in DOMAIN engine_out :
        (Annotated(f) /\ Len(OriginalRows(f)) >= 2) =>
            LET original == OriginalRows(f)
                header == original[1]
                sample == SubSeq(original, 2,
                                 Min(Len(original), 1 + SAMPLE_ROWS))
                tags == ReadRows(outfs[f])[1]
            IN  /\ Len(tags) = Len(header)
                /\ \A i \in 1..Len(sample) : Len(sample[i]) >= Len(header)
                /\ \A c \in 1..Len(header) :
                      tags[c] =
                          (IF c = 1 THEN sHeaderMark ELSE <<>>) \o
                          <<infer_column_type(
                              [i \in 1..Len(sample) |-> sample[i][c]])>>

\* the content of a table that is annotated in full: a first row, then the
\* cells of every original row
CompleteAnnotation(now, original) ==
    /\ Len(now) = Len(original) + 1
    /\ \A i \in 1..Len(original) : now[i + 1].cells = original[i].cells

\* C5: at every point of the annotation, a failure between any two steps
\* included, the file under a table's original name holds the complete
\* original content or the complete annotated content; any other content is
\* under the temporary name.
C5_OriginalNameNeverPartial ==
    /\ \A f \in DOMAIN engine_out :
          /\ f \in DOMAIN outfs
          /\ \/ outfs[f] = engine_out[f]
             \/ CompleteAnnotation(outfs[f], engine_out[f])
    /\ \A f \in DOMAIN outfs :
          f \notin DOMAIN engine_out =>
              EndsWith(f, TEMP) \/ EndsWith(f, CPPIPE)

\* the run failed while writing rows: the temporary file is cut short
C5_Witness ==
    /\ exc = "OSError" /\ pc = "rows"
    /\ LET f == csv_files[1]
       IN  /\ Len(outfs[TempPath(f)]) >= 2
           /\ Len(outfs[TempPath(f)]) <= Len(engine_out[f])
           /\ outfs[f] = engine_out[f]

-----------------------------------------------------------------------------
(* C6, C9, C10 *)

\* C6: if the engine exits with a non-zero status, an update with progress
\* 50 that carries the command line and the exit code is sent before the
\* error is raised, and then no result table is annotated, the patched
\* pipeline is not moved into the output directory and completion is never
\* reported.
C6_EngineFailureIsFatal ==
    (returncode # NotRun /\ returncode # 0) =>
        /\ pc = "status"
        /\ outfs = engine_out
        /\ mod_pipeline \in DOMAIN tmpfiles
        /\ \A i \in 1..Len(updates) :
              updates[i].progress # 100 /\ updates[i].status # "TERMINATED"
        /\ exc = "" => Progress = <<0, 25>>
        /\ exc # "" =>
              /\ exc = "ValueError"
              /\ Progress = <<0, 25, 50>>
              /\ updates[3].comment.shArgs = ShArgs
              /\ updates[3].comment.returncode = returncode

\* the engine failed after it had written result tables, and the run raised
C6_Witness ==
    /\ returncode = 1
    /\ exc = "ValueError"
    /\ engine_out # <<>>

\* the retry directory as a sibling of the one that exists
RetryPathSibling(first_path, stamp) ==
    Join(SubSeq(first_path, 1, Len(first_path) - 1), <<ToString(stamp)>>)

\* C9: when the directory named by the millisecond timestamp exists, the
\* retry creates a fresh directory named by the second timestamp as a
\* sibling of the colliding directory, and nothing is created in, written
\* into or removed from the colliding directory.
C9_RetryCreatesSibling ==
    collided # <<>> =>
        /\ exc = ""
        /\ tmp_path = RetryPathSibling(collided, timestamp)
        /\ tmp_path \in tmpdirs
        /\ \A path \in tmpdirs \cup DOMAIN tmpfiles :
              (path # collided /\ StartsWith(path, collided)) =>
                  path \in {StaleFile, StaleNested}
        /\ StaleFile \in DOMAIN tmpfiles

IsPrefix(s, t) == Len(s) <= Len(t) /\ SubSeq(t, 1, Len(s)) = s

\* the engine returned a non-zero status and the run has raised
FailedRun == returncode # NotRun /\ returncode # 0 /\ exc # ""

\* C10 as stated: the progress values are 0, 25, 90, 100 when the engine
\* succeeds and 0, 25, 50 when it fails.
C10_ProgressWithNinety ==
    /\ pc = "done" => Progress = <<0, 25, 90, 100>>
    /\ FailedRun => Progress = <<0, 25, 50>>

\* C10 amended: the progress values are 0, 25, 100 for a run that reaches
\* the completion report and 0, 25, 50 when the engine fails, and 90 is
\* never reported; a run that raises elsewhere stops at a prefix of 0, 25,
\* 100. 0 precedes data preparation, 25 precedes the patching and the
\* engine call, and 100 is reported only after the engine succeeded and
\* every result table has been annotated.
C10_ProgressWithoutNinety ==
    /\ IsPrefix(Progress, <<0, 25, 100>>) \/ IsPrefix(Progress, <<0, 25, 50>>)
    /\ pc = "done" => Progress = <<0, 25, 100>>
    /\ FailedRun => Progress = <<0, 25, 50>>
    /\ tmp_path # <<>> => Len(Progress) >= 1
    /\ (mod_pipeline # <<>> \/ returncode # NotRun) => Len(Progress) >= 2
    /\ (\E i \in 1..Len(Progress) : Progress[i] = 100) =>
          /\ returncode = 0
          /\ csv_files = <<>>
          /\ \A f \in DOMAIN engine_out :
                Annotated(f) /\ CompleteAnnotation(outfs[f], engine_out[f])

\* a run whose engine succeeded has annotated two tables and reported
\* completion
C10_Witness ==
    /\ pc = "done"
    /\ Progress = <<0, 25, 100>>
    /\ Cardinality(DOMAIN engine_out) = 2

-----------------------------------------------------------------------------
(* C7, C8 *)

Contains(s, sub) ==
    \E i \in 1..(Len(s) - Len(sub) + 1) :
        SubSeq(s, i, i + Len(sub) - 1) = sub

\* the placeholders are at the documented coordinates
MasksPresent(pipeline) ==
    \A i \in 1..Len(MASK_INDICES) :
        Contains(
            pipeline.modules[NAMES_AND_TYPES_MODULE_INDEX + 1]
                [MASK_INDICES[i].index],
            MASK_INDICES[i].mask_key)

\* the value of setting n of module m after patching: the placeholder
\* replaced at the two coordinates, the input's value everywhere else
ExpectedSetting(pipeline, params, m, n) ==
    LET v == pipeline.modules[m + 1][n]
    IN  IF m = 2 /\ n = 14
        THEN Replace(v, NUCLEI_MASK_KEY, params.nuclei_mask_suffix)
        ELSE IF m = 2 /\ n = 26
        THEN Replace(v, CELLS_MASK_KEY, params.cells_mask_suffix)
        ELSE v

SettingsAsExpected(in, params, out) ==
    /\ Len(out.modules) = Len(in.modules)
    /\ \A m \in 0..(Len(in.modules) - 1) :
          /\ Len(out.modules[m + 1]) = Len(in.modules[m + 1])
          /\ \A n \in 1..Len(in.modules[m + 1]) :
                out.modules[m + 1][n] = ExpectedSetting(in, params, m, n)

\* the patcher has just returned: the step from line 201 to line 204
Patched == pc = "launch" /\ pc' = "engine"

WrittenBesideOriginal ==
    /\ cppipe' = cppipe
    /\ mod_pipeline' = Join(tmp_path, Basename(PIPELINE_PATH))
    /\ DOMAIN tmpfiles' = DOMAIN tmpfiles \cup {mod_pipeline'}

\* C7 as stated: for every ParameterSet, patching a pipeline that holds the
\* placeholders replaces exactly them and leaves every other setting of
\* every module, the channel list and the image list included, as in the
\* input; the original file is not modified and the result is written to the
\* destination directory under the same base name.
C7_EveryOtherSettingIdentical ==
    [][(Patched /\ MasksPresent(cppipe)) =>
          LET out == tmpfiles'[mod_pipeline']
          IN  /\ WrittenBesideOriginal
              /\ SettingsAsExpected(cppipe, parameters, out)
              /\ out.channels = cppipe.channels
              /\ out.images_list = cppipe.images_list]_vars

\* C7 amended: the same, except that the channel list and the image list are
\* left as in the input only when metric_channels is the default '1,2,3'.
C7_OtherSettingsIdenticalUnlessChannelsRequested ==
    [][(Patched /\ MasksPresent(cppipe)) =>
          LET out == tmpfiles'[mod_pipeline']
          IN  /\ WrittenBesideOriginal
              /\ SettingsAsExpected(cppipe, parameters, out)
              /\ parameters.metric_channels = sDefaultChannels =>
                    /\ out.channels = cppipe.channels
                    /\ out.images_list = cppipe.images_list]_vars

\* a pipeline with both placeholders was patched for non-default channels,
\* and its channel list changed
C7_Witness ==
    /\ pc = "engine" /\ exc = ""
    /\ MasksPresent(cppipe)
    /\ parameters.metric_channels # sDefaultChannels
    /\ mod_pipeline \in DOMAIN tmpfiles
    /\ tmpfiles[mod_pipeline].channels # cppipe.channels
    /\ tmpfiles[mod_pipeline].modules # cppipe.modules

\* the channel identifiers each metric_channels of the model lists
RequestedIds(metric_channels) ==
    CASE metric_channels = <<"1">> -> <<1>>
      [] metric_channels = <<"2", ",", "1">> -> <<2, 1>>
      [] metric_channels = <<"3", ",", "2", ",", "1">> -> <<3, 2, 1>>
      [] metric_channels = <<"1", ",", " ", "2", ",", "3">> -> <<1, 2, 3>>
      [] metric_channels = <<"1", ",", "2", ",", "3", ",", "4">>
            -> <<1, 2, 3, 4>>
      [] metric_channels = <<"1", "0", ",", "-", "2">> -> <<10, 0 - 2>>
      [] OTHER -> <<>>

\* C8: for a metric_channels that differs from '1,2,3' and lists k ids, for
\* any number of configured channels, the patched channel list has exactly k
\* entries, entry i has the i-th id and the name Channel<id>, and the image
\* list of the measurement module is those k names in the same order.
C8_ChannelsAsRequested ==
    (pc = "engine" /\ parameters.metric_channels # sDefaultChannels) =>
        LET ids == RequestedIds(parameters.metric_channels)
            out == tmpfiles[mod_pipeline]
        IN  /\ Len(ids) >= 1
            /\ Len(out.channels) = Len(ids)
            /\ \A i \in 1..Len(ids) :
                  /\ out.channels[i].channel_choice = ids[i]
                  /\ out.channels[i].image_name = sChannel \o Str(ids[i])
            /\ out.images_list = [i \in 1..Len(ids) |-> sChannel \o Str(ids[i])]

\* more channels were configured than requested, and the list was cut
C8_Witness ==
    /\ pc = "engine"
    /\ parameters.metric_channels # sDefaultChannels
    /\ Len(cppipe.channels) > Len(tmpfiles[mod_pipeline].channels)
    /\ Len(tmpfiles[mod_pipeline].channels) = 2

=============================================================================
